---- MODULE Spec2Model ----
(***************************************************************************)
(* zc_messaging backend utilities: the emoji-reaction helpers of           *)
(* utils/message_utils.py and the zc_core gateway of utils/db.py.          *)
(*                                                                         *)
(* Three specifications share the module's variables:                      *)
(*   Spec         the reaction helpers acting on one message's emojis list *)
(*   SpecGateway  DataStorage and the message helpers built on it          *)
(*   SpecRequests two concurrent reaction requests on one stored message   *)
(***************************************************************************)
EXTENDS Integers, Sequences, FiniteSets, TLC

\* ---------------------------------------------------------------- bounds
MaxEmojis == 2

Users == {"u1", "u2", "u3"}
Names == {"like", "joy"}

\* ------------------------------------------------------- python list helpers
Range(s) == {s[k] : k \in 1..Len(s)}

\* list.index(x): the position of the first element equal to x. Python raises
\* ValueError when there is none; here the CHOOSE is then undefined and TLC stops.
ListIndex(s, x) == CHOOSE k \in 1..Len(s) : s[k] = x /\ \A j \in 1..(k - 1) : s[j] # x

DropAt(s, k) == [j \in 1..(Len(s) - 1) |-> IF j < k THEN s[j] ELSE s[j + 1]]

\* list.remove(x): deletes the first element equal to x.
ListRemove(s, x) == DropAt(s, ListIndex(s, x))

\* ------------------------------------------------------------ the objects
\* A reaction payload: the Emoji request model, read through reactedUsersId[0].
Payload(name, user) == [name |-> name, reactedUsersId |-> <<user>>]

\* Python passes the reaction dict by reference. A reference is a position:
\* k >= 1 is the k-th element of the list, 0 is the one dict that has been
\* taken out of the list and is still held by the caller (reactions.out[1]).
Deref(reactions, emoji) ==
    IF emoji = 0 THEN reactions.out[1] ELSE reactions.list[emoji]

\* An in-place mutation of the referenced dict.
Assign(reactions, emoji, value) ==
    IF emoji = 0
    THEN [reactions EXCEPT !.out = <<value>>]
    ELSE [reactions EXCEPT !.list[emoji] = value]

\* --------------------------------------------------------- message_utils.py
append_emojiNoCount(emoji, payload) ==
    [emoji EXCEPT !.reactedUsersId = Append(@, payload.reactedUsersId[1])]

append_emojiFront(emoji, payload) ==
    [emoji EXCEPT !.reactedUsersId = <<payload.reactedUsersId[1]>> \o @,
                  !.count = @ + 1]

\* append_emoji: emoji["reactedUsersId"].append(...); emoji["count"] += 1
append_emoji(emoji, payload) ==
    [emoji EXCEPT !.reactedUsersId = Append(@, payload.reactedUsersId[1]),
                  !.count = @ + 1]

remove_emojiKeepsEmpty(emoji, payload, reactions) ==
    LET e == Deref(reactions, emoji)
        m == [e EXCEPT !.reactedUsersId = ListRemove(@, payload.reactedUsersId[1]),
                       !.count = @ - 1]
        mutated == Assign(reactions, emoji, m)
    IN  [list |-> mutated.list, out |-> mutated.out, ref |-> emoji]

\* remove_emoji: the user id is removed from the dict in place and the count
\* decremented; at count 0 reactions.remove(emoji) deletes the first element
\* of the list that EQUALS the dict (list.remove compares with ==). The result
\* carries the list, the dict taken out of it (if it was this one) and where
\* the caller's reference now points.
remove_emoji(emoji, payload, reactions) ==
    LET e == Deref(reactions, emoji)
        m == [e EXCEPT !.reactedUsersId = ListRemove(@, payload.reactedUsersId[1]),
                       !.count = @ - 1]
        mutated == Assign(reactions, emoji, m)
    IN  IF m.count = 0
        THEN LET k == ListIndex(mutated.list, m)
             IN  [list |-> DropAt(mutated.list, k),
                  out  |-> IF k = emoji THEN <<m>> ELSE mutated.out,
                  ref  |-> IF emoji = 0 \/ k = emoji THEN 0 ELSE emoji - 1]
        ELSE [list |-> mutated.list, out |-> mutated.out, ref |-> emoji]

\* The branch toggle_reaction takes.
Branch(emoji, payload, reactions) ==
    IF payload.reactedUsersId[1] \notin Range(Deref(reactions, emoji).reactedUsersId)
    THEN "add" ELSE "remove"

toggle_reactionAlwaysAdds(emoji, payload, reactions) ==
    LET mutated == Assign(reactions, emoji,
                          append_emoji(Deref(reactions, emoji), payload))
    IN  [list |-> mutated.list, out |-> mutated.out, ref |-> emoji]

\* toggle_reaction: append_emoji mutates the dict in place, remove_emoji may
\* also restructure the list.
toggle_reaction(emoji, payload, reactions) ==
    IF payload.reactedUsersId[1] \notin Range(Deref(reactions, emoji).reactedUsersId)
    THEN LET mutated == Assign(reactions, emoji,
                               append_emoji(Deref(reactions, emoji), payload))
         IN  [list |-> mutated.list, out |-> mutated.out, ref |-> emoji]
    ELSE remove_emoji(emoji, payload, reactions)

get_member_emojiAnyFirst(emoji_name, emojis_) ==
    IF emojis_ = <<>> THEN 0 ELSE 1

get_member_emojiScansAll(emoji_name, emojis_) ==
    IF \E k \in 1..Len(emojis_) : emojis_[k].name = emoji_name
    THEN CHOOSE k \in 1..Len(emojis_) :
             /\ emojis_[k].name = emoji_name
             /\ \A j \in 1..(k - 1) : emojis_[j].name # emoji_name
    ELSE 0

\* get_member_emoji: the for loop returns in its first iteration, so only
\* emojis[0] is ever compared. The result is a reference (0 is None).
get_member_emoji(emoji_name, emojis_) ==
    IF emojis_ = <<>>
    THEN 0
    ELSE IF emoji_name = emojis_[1].name THEN 1 ELSE 0

\* ------------------------------------------------------------------ db.py
\* What requests.get/post/put can come back with: a RequestException, or a
\* response with a status code and a body. A body is not JSON ("invalid"), a
\* JSON object without a "data" key ("nodata"), or one whose data is an empty
\* or a non-empty list ("empty", "items").
Statuses == {200, 201, 204, 404, 500}
Bodies == {"invalid", "nodata", "empty", "items"}
NoResponse == [fail |-> TRUE, status_code |-> 0, body |-> "none"]
Responses == {NoResponse} \cup [fail : {FALSE}, status_code : Statuses, body : Bodies]

\* Python values the gateway and the helpers hand back.
PyNone == [tag |-> "None", status_code |-> 0, data |-> "none"]
EmptyList == [tag |-> "list", status_code |-> 0, data |-> "empty"]
EmptyDict == [tag |-> "dict", status_code |-> 0, data |-> "empty"]
Raised(exception) == [tag |-> "raise", status_code |-> 0, data |-> exception]
\* {"status_code": response.status_code, "message": ...}
ErrorObject(status_code) == [tag |-> "error", status_code |-> status_code, data |-> "message"]

\* bool(value): None, [] and {} are falsy.
Truthy(value) == value.tag # "None" /\ value.data # "empty"
\* "status_code" in value
HasStatusCode(value) == value.tag = "error"

\* response.json(): the whole document, or JSONDecodeError.
ResponseJson(response) ==
    IF response.body = "invalid"
    THEN Raised("JSONDecodeError")
    ELSE [tag |-> "doc", status_code |-> 0, data |-> response.body]

\* response.json().get("data")
ResponseData(response) ==
    LET doc == ResponseJson(response)
    IN  IF doc.tag = "raise" THEN doc
        ELSE IF doc.data = "nodata" THEN PyNone
        ELSE [tag |-> "list", status_code |-> 0, data |-> doc.data]

\* The marketplace lookup of the constructor.
Marketplaces == {"fail", "nodata", "noplugins", "nomatch", "noid", "match"}

NoDb == [state |-> "none", plugin_id |-> "", exception |-> ""]

\* DataStorage.__init__: only RequestException is turned into the 408
\* HTTPException; .get("plugins") on None, iterating None and next() on an
\* exhausted generator raise their own exceptions.
DataStorage(marketplace) ==
    CASE marketplace = "fail" ->
             [state |-> "raised", plugin_id |-> "", exception |-> "HTTPException408"]
      [] marketplace = "nodata" ->
             [state |-> "raised", plugin_id |-> "", exception |-> "AttributeError"]
      [] marketplace = "noplugins" ->
             [state |-> "raised", plugin_id |-> "", exception |-> "TypeError"]
      [] marketplace = "nomatch" ->
             [state |-> "raised", plugin_id |-> "", exception |-> "StopIteration"]
      [] marketplace = "noid" ->
             [state |-> "ready", plugin_id |-> "None", exception |-> ""]
      [] OTHER ->
             [state |-> "ready", plugin_id |-> "plugin", exception |-> ""]

\* DataStorage.write: success is status 201 only.
write(response) ==
    IF response.fail THEN PyNone
    ELSE IF response.status_code = 201 THEN ResponseJson(response)
    ELSE IF ResponseJson(response).tag = "raise" THEN ResponseJson(response)
    ELSE ErrorObject(response.status_code)

\* DataStorage.update: success is status 200 only.
update(response) ==
    IF response.fail THEN PyNone
    ELSE IF response.status_code = 200 THEN ResponseJson(response)
    ELSE IF ResponseJson(response).tag = "raise" THEN ResponseJson(response)
    ELSE ErrorObject(response.status_code)

\* DataStorage.read: the error message is response.reason, no json() call.
read(response) ==
    IF response.fail THEN PyNone
    ELSE IF response.status_code = 200 THEN ResponseData(response)
    ELSE ErrorObject(response.status_code)

\* DataStorage.delete
delete(response) ==
    IF response.fail THEN PyNone
    ELSE IF response.status_code = 200 THEN ResponseJson(response)
    ELSE ErrorObject(response.status_code)

\* DataStorage.get_all_members: [] on a RequestException, response.json()["data"]
\* on 200 (KeyError without the key), and no return statement otherwise.
get_all_members(response) ==
    IF response.fail THEN EmptyList
    ELSE IF response.status_code = 200
         THEN IF ResponseJson(response).tag = "raise" THEN ResponseJson(response)
              ELSE IF response.body = "nodata" THEN Raised("KeyError")
              ELSE ResponseData(response)
    ELSE PyNone

\* if response and "status_code" not in response: return response; return {}
SuccessOrEmpty(response) ==
    IF response.tag = "raise" THEN response
    ELSE IF Truthy(response) /\ ~HasStatusCode(response) THEN response
    ELSE EmptyDict

\* get_org_messages
get_org_messages(response) == SuccessOrEmpty(read(response))

\* get_room_messages: return response or []
get_room_messages(response) ==
    IF read(response).tag = "raise" THEN read(response)
    ELSE IF Truthy(read(response)) THEN read(response)
    ELSE EmptyList

\* get_message
get_message(response) == SuccessOrEmpty(read(response))

\* update_reaction
update_reaction(response) == SuccessOrEmpty(update(response))

\* line 69 of update_reaction: data = {"emojis": message["emojis"]}
UpdateDataFirstOnly(message) ==
    [emojis |-> SubSeq(message.emojis, 1, IF message.emojis = <<>> THEN 0 ELSE 1)]

UpdateData(message) == [emojis |-> message.emojis]

\* The reaction a first reactor creates.
NewReaction(name, user) == [name |-> name, reactedUsersId |-> <<user>>, count |-> 1]

\* The reaction endpoint on a message's list: look the name up, toggle the
\* reaction found, or start a new reaction.
ReactionsAfter(payload, reactions) ==
    IF get_member_emoji(payload.name, reactions) # 0
    THEN toggle_reaction(get_member_emoji(payload.name, reactions), payload,
                         [list |-> reactions, out |-> <<>>])
    ELSE [list |-> Append(reactions, NewReaction(payload.name, payload.reactedUsersId[1])),
          out |-> <<>>,
          ref |-> Len(reactions) + 1]

\* ------------------------------------------------------------------ state
VARIABLES
    emojis,   \* message["emojis"]: the list of reaction dicts
    out,      \* <<d>> when the dict the caller holds was taken out of the list
    ref,      \* where the caller's reference points after the last call
    prev,     \* emojis before the last call
    prev2,    \* emojis before the call before that (two toggles in succession)
    op,       \* the last call: kind, arguments, branch taken
    db,       \* the DataStorage object: constructed, or the exception raised
    call,     \* the last gateway or helper call: what came back and the result
    store,    \* the emojis of the message document kept by zc_core
    store0,   \* the emojis of that document before any request
    pc,       \* where each request is
    message,  \* each request's copy of the message
    payload,  \* each request's reaction payload
    wrote,    \* the requests whose update zc_core has applied
    last      \* the request whose update was applied last (0: none)

engineVars == <<emojis, out, ref, prev, prev2, op>>
gatewayVars == <<db, call>>
requestVars == <<store, store0, pc, message, payload, wrote, last>>
vars == <<emojis, out, ref, prev, prev2, op, db, call,
          store, store0, pc, message, payload, wrote, last>>

\* ------------------------------------------------------ reaction helpers
NoOp == [kind |-> "none", name |-> "", user |-> "", emoji |-> 0,
         branch |-> "", first |-> ""]

NoCall == [fn |-> "none", response |-> NoResponse, inner |-> PyNone, ret |-> PyNone]

NoMessage == [id |-> "", emojis |-> <<>>]

\* A message with emojis == [], no gateway constructed, no request under way.
Init ==
    /\ emojis = <<>>
    /\ out = <<>>
    /\ ref = 0
    /\ prev = <<>>
    /\ prev2 = <<>>
    /\ op = NoOp
    /\ db = NoDb
    /\ call = NoCall
    /\ store = <<>>
    /\ store0 = <<>>
    /\ pc = [r \in {1, 2} |-> "idle"]
    /\ message = [r \in {1, 2} |-> NoMessage]
    /\ payload = [r \in {1, 2} |-> Payload("", "")]
    /\ wrote = {}
    /\ last = 0

\* toggle_reaction(emojis[i], payload, emojis) on any reaction of the list.
ToggleReaction(i, user) ==
    /\ i \in 1..Len(emojis)
    /\ LET mem == [list |-> emojis, out |-> <<>>]
           name == emojis[i].name
           r == toggle_reaction(i, Payload(name, user), mem)
       IN  /\ emojis' = r.list
           /\ out' = r.out
           /\ ref' = r.ref
           /\ op' = [kind |-> "toggle", name |-> name, user |-> user, emoji |-> i,
                     branch |-> Branch(i, Payload(name, user), mem),
                     first |-> Branch(i, Payload(name, user), mem)]
    /\ prev' = emojis
    /\ prev2' = emojis
    /\ UNCHANGED <<gatewayVars, requestVars>>

\* The same call once more: same dict, same payload, same list.
ToggleAgain ==
    /\ op.kind = "toggle"
    /\ LET mem == [list |-> emojis, out |-> out]
           p == Payload(op.name, op.user)
           r == toggle_reaction(ref, p, mem)
       IN  /\ emojis' = r.list
           /\ out' = r.out
           /\ ref' = r.ref
           /\ op' = [op EXCEPT !.kind = "again", !.branch = Branch(ref, p, mem)]
    /\ prev' = emojis
    /\ prev2' = prev
    /\ UNCHANGED <<gatewayVars, requestVars>>

\* The reaction endpoint on the message.
React(name, user) ==
    LET found == get_member_emoji(name, emojis)
        r == ReactionsAfter(Payload(name, user), emojis)
    IN  /\ found = 0 => Len(emojis) < MaxEmojis
        /\ emojis' = r.list
        /\ out' = r.out
        /\ ref' = r.ref
        /\ op' = [kind |-> "react", name |-> name, user |-> user, emoji |-> found,
                  branch |-> IF found = 0 THEN "create"
                             ELSE Branch(found, Payload(name, user),
                                         [list |-> emojis, out |-> <<>>]),
                  first |-> IF found = 0 THEN "create"
                            ELSE Branch(found, Payload(name, user),
                                        [list |-> emojis, out |-> <<>>])]
        /\ prev' = emojis
        /\ prev2' = emojis
        /\ UNCHANGED <<gatewayVars, requestVars>>

\* get_member_emoji(name, emojis) called on its own.
GetMemberEmoji(name) ==
    /\ ref' = get_member_emoji(name, emojis)
    /\ op' = [kind |-> "lookup", name |-> name, user |-> "", emoji |-> 0,
              branch |-> "", first |-> ""]
    /\ out' = <<>>
    /\ prev' = emojis
    /\ prev2' = emojis
    /\ UNCHANGED <<emojis, gatewayVars, requestVars>>

Next ==
    \/ \E i \in 1..MaxEmojis, user \in Users : ToggleReaction(i, user)
    \/ ToggleAgain
    \/ \E name \in Names, user \in Users : React(name, user)
    \/ \E name \in Names : GetMemberEmoji(name)

\* ---------------------------------------------------------- gateway calls
\* What a helper leaves behind: it constructs its own DataStorage, so a
\* constructor exception leaves the helper before any request is made.
HelperCall(fn, made, response, inner, ret) ==
    IF made.state = "ready"
    THEN [fn |-> fn, response |-> response, inner |-> inner, ret |-> ret]
    ELSE [fn |-> fn, response |-> NoResponse, inner |-> PyNone,
          ret |-> Raised(made.exception)]

\* DB = DataStorage(org_id)
Construct(marketplace) ==
    /\ db' = DataStorage(marketplace)
    /\ call' = NoCall
    /\ UNCHANGED <<engineVars, requestVars>>

Write(response) ==
    /\ db.state = "ready"
    /\ call' = [fn |-> "write", response |-> response,
                inner |-> write(response), ret |-> write(response)]
    /\ UNCHANGED <<db, engineVars, requestVars>>

Update(response) ==
    /\ db.state = "ready"
    /\ call' = [fn |-> "update", response |-> response,
                inner |-> update(response), ret |-> update(response)]
    /\ UNCHANGED <<db, engineVars, requestVars>>

Read(response) ==
    /\ db.state = "ready"
    /\ call' = [fn |-> "read", response |-> response,
                inner |-> read(response), ret |-> read(response)]
    /\ UNCHANGED <<db, engineVars, requestVars>>

Delete(response) ==
    /\ db.state = "ready"
    /\ call' = [fn |-> "delete", response |-> response,
                inner |-> delete(response), ret |-> delete(response)]
    /\ UNCHANGED <<db, engineVars, requestVars>>

GetAllMembers(response) ==
    /\ db.state = "ready"
    /\ call' = [fn |-> "get_all_members", response |-> response,
                inner |-> get_all_members(response),
                ret |-> get_all_members(response)]
    /\ UNCHANGED <<db, engineVars, requestVars>>

GetOrgMessages(marketplace, response) ==
    /\ db' = DataStorage(marketplace)
    /\ call' = HelperCall("get_org_messages", DataStorage(marketplace), response,
                          read(response), get_org_messages(response))
    /\ UNCHANGED <<engineVars, requestVars>>

GetRoomMessages(marketplace, response) ==
    /\ db' = DataStorage(marketplace)
    /\ call' = HelperCall("get_room_messages", DataStorage(marketplace), response,
                          read(response), get_room_messages(response))
    /\ UNCHANGED <<engineVars, requestVars>>

GetMessage(marketplace, response) ==
    /\ db' = DataStorage(marketplace)
    /\ call' = HelperCall("get_message", DataStorage(marketplace), response,
                          read(response), get_message(response))
    /\ UNCHANGED <<engineVars, requestVars>>

UpdateReaction(marketplace, response) ==
    /\ db' = DataStorage(marketplace)
    /\ call' = HelperCall("update_reaction", DataStorage(marketplace), response,
                          update(response), update_reaction(response))
    /\ UNCHANGED <<engineVars, requestVars>>

NextGateway ==
    \/ \E marketplace \in Marketplaces : Construct(marketplace)
    \/ \E response \in Responses : Write(response)
    \/ \E response \in Responses : Update(response)
    \/ \E response \in Responses : Read(response)
    \/ \E response \in Responses : Delete(response)
    \/ \E response \in Responses : GetAllMembers(response)
    \/ \E marketplace \in Marketplaces, response \in Responses :
           GetOrgMessages(marketplace, response)
    \/ \E marketplace \in Marketplaces, response \in Responses :
           GetRoomMessages(marketplace, response)
    \/ \E marketplace \in Marketplaces, response \in Responses :
           GetMessage(marketplace, response)
    \/ \E marketplace \in Marketplaces, response \in Responses :
           UpdateReaction(marketplace, response)

\* ----------------------------------------------------- concurrent requests
\* Two reaction requests on the same message: each reads the message with
\* get_message, applies its payload to its own copy and sends the copy's
\* emojis with update_reaction. Request r acts for user RequestUser(r).
Requests == {1, 2}
RequestUser(r) == IF r = 1 THEN "u1" ELSE "u2"

\* What the document holds before the requests.
StoredBefore ==
    {<<>>,
     <<[name |-> "like", reactedUsersId |-> <<"u3">>, count |-> 1]>>,
     <<[name |-> "like", reactedUsersId |-> <<"u1">>, count |-> 1]>>,
     <<[name |-> "like", reactedUsersId |-> <<"u3", "u2">>, count |-> 2]>>}

\* What zc_core answers a request with.
Answers ==
    {NoResponse,
     [fail |-> FALSE, status_code |-> 200, body |-> "items"],
     [fail |-> FALSE, status_code |-> 500, body |-> "items"]}

\* The document holds one of StoredBefore and each request carries a payload
\* {name, reactedUsersId: [its user]}.
InitRequests ==
    /\ emojis = <<>>
    /\ out = <<>>
    /\ ref = 0
    /\ prev = <<>>
    /\ prev2 = <<>>
    /\ op = NoOp
    /\ db = NoDb
    /\ call = NoCall
    /\ store \in StoredBefore
    /\ store0 = store
    /\ pc = [r \in Requests |-> "start"]
    /\ message = [r \in Requests |-> NoMessage]
    /\ \E name \in [Requests -> Names] :
           payload = [r \in Requests |-> Payload(name[r], RequestUser(r))]
    /\ wrote = {}
    /\ last = 0

\* message = await get_message(org_id, room_id, message_id); an empty result
\* ends the request.
ReadMessage(r, response) ==
    /\ pc[r] = "start"
    /\ IF Truthy(get_message(response))
       THEN /\ message' = [message EXCEPT ![r] = [id |-> "m1", emojis |-> store]]
            /\ pc' = [pc EXCEPT ![r] = "read"]
       ELSE /\ pc' = [pc EXCEPT ![r] = "failed"]
            /\ UNCHANGED message
    /\ UNCHANGED <<store, store0, payload, wrote, last, engineVars, gatewayVars>>

\* The payload is applied to the request's copy of the message.
ToggleCopy(r) ==
    /\ pc[r] = "read"
    /\ message' = [message EXCEPT
                      ![r].emojis = ReactionsAfter(payload[r], message[r].emojis).list]
    /\ pc' = [pc EXCEPT ![r] = "toggled"]
    /\ UNCHANGED <<store, store0, payload, wrote, last, engineVars, gatewayVars>>

\* await update_reaction(org_id, message): the PUT carries the copy's emojis
\* and zc_core, when it answers 200, holds them in place of what it held.
SendUpdate(r, response) ==
    /\ pc[r] = "toggled"
    /\ IF Truthy(update_reaction(response))
       THEN /\ store' = UpdateData(message[r]).emojis
            /\ wrote' = wrote \cup {r}
            /\ last' = r
            /\ pc' = [pc EXCEPT ![r] = "done"]
       ELSE /\ pc' = [pc EXCEPT ![r] = "failed"]
            /\ UNCHANGED <<store, wrote, last>>
    /\ UNCHANGED <<store0, message, payload, engineVars, gatewayVars>>

NextRequests ==
    \/ \E r \in Requests, response \in Answers : ReadMessage(r, response)
    \/ \E r \in Requests : ToggleCopy(r)
    \/ \E r \in Requests, response \in Answers : SendUpdate(r, response)

\* -------------------------------------------------------- specifications
Spec == Init /\ [][Next]_vars

SpecGateway == Init /\ [][NextGateway]_vars

SpecRequests == InitRequests /\ [][NextRequests]_vars

\* ------------------------------------------------------- the reaction claims
\* The dict the last call acted on, wherever it now is.
Obj == Deref([list |-> emojis, out |-> out], ref)

\* The last call was toggle_reaction on the reaction at prev[op.emoji].
Toggled == op.kind \in {"toggle", "react"} /\ op.emoji >= 1

\* C1: after any sequence of toggle_reaction calls every reaction in the
\* message's emojis list has count = number of ids in reactedUsersId, and
\* count >= 0.
C1_CountIsSize ==
    \A k \in 1..Len(emojis) :
        /\ emojis[k].count = Len(emojis[k].reactedUsersId)
        /\ emojis[k].count >= 0

C1_Witness ==
    /\ op.kind = "toggle"
    /\ op.branch = "remove"
    /\ Len(emojis) = Len(prev)
    /\ Len(emojis[op.emoji].reactedUsersId) >= 2

\* C2: toggle_reaction flips exactly the acting user's membership. An absent
\* user is appended at the end and count grows by 1; a present user is removed
\* and count shrinks by 1; the other ids keep their membership and order.
C2_ToggleFlipsUser ==
    Toggled =>
        LET e == prev[op.emoji]
            Other(x) == x # op.user
        IN  IF op.user \notin Range(e.reactedUsersId)
            THEN /\ Obj.reactedUsersId = Append(e.reactedUsersId, op.user)
                 /\ Obj.count = e.count + 1
                 /\ ref = op.emoji
            ELSE /\ Obj.reactedUsersId = SelectSeq(e.reactedUsersId, Other)
                 /\ op.user \notin Range(Obj.reactedUsersId)
                 /\ Obj.count = e.count - 1

C2_Witness ==
    /\ Toggled
    /\ op.branch = "add"
    /\ Len(prev[op.emoji].reactedUsersId) = 2
    /\ Obj.reactedUsersId = Append(prev[op.emoji].reactedUsersId, op.user)

\* C3: when a toggle removes a user, the reaction is deleted from the list
\* exactly when its count has become 0 and stays in place otherwise; no
\* reaction with count 0 is left in the emojis list.
C3_DeletedIffEmpty ==
    /\ (Toggled /\ op.branch = "remove") =>
           /\ (Obj.count = 0) <=> (ref = 0 /\ emojis = DropAt(prev, op.emoji))
           /\ (Obj.count >= 1) =>
                  /\ ref = op.emoji
                  /\ Len(emojis) = Len(prev)
                  /\ \A k \in 1..Len(prev) : k # op.emoji => emojis[k] = prev[k]
    /\ \A k \in 1..Len(emojis) : emojis[k].count # 0

C3_Witness ==
    /\ Toggled
    /\ op.branch = "remove"
    /\ Obj.count = 0
    /\ Len(prev) = 2
    /\ op.emoji = 2
    /\ emojis = <<prev[1]>>

C5_FirstReactionCreated ==
    (op.kind = "react" /\ \A k \in 1..Len(prev) : prev[k].name # op.name) =>
        /\ emojis = Append(prev, NewReaction(op.name, op.user))
        /\ prev = <<>> => emojis = <<NewReaction(op.name, op.user)>>

C5_Witness ==
    /\ op.kind = "react"
    /\ prev # <<>>
    /\ \A k \in 1..Len(prev) : prev[k].name # op.name
    /\ emojis = Append(prev, NewReaction(op.name, op.user))

\* C6: get_member_emoji returns absent for an empty list, and for a non-empty
\* list the first element when its name is the one asked for and absent
\* otherwise, whatever the later elements are.
C6_OnlyFirstElement ==
    op.kind = "lookup" =>
        /\ prev = <<>> => ref = 0
        /\ prev # <<>> => /\ ref \in {0, 1}
                          /\ ref = 1 <=> prev[1].name = op.name

C6_Witness ==
    /\ op.kind = "lookup"
    /\ Len(prev) >= 2
    /\ prev[1].name # op.name
    /\ prev[2].name = op.name
    /\ ref = 0

\* -------------------------------------------------------- the gateway claims
NetworkOps == {"write", "update", "read", "delete", "get_all_members"}
Helpers == {"get_org_messages", "get_room_messages", "get_message", "update_reaction"}

\* C7: every gateway network operation returns and never raises: None on a
\* transport failure, an error object {status_code, message} on a non-2xx
\* response, and never an error object on a 2xx response.
C7_ErrorsBecomeValues ==
    call.fn \in NetworkOps =>
        /\ call.ret.tag # "raise"
        /\ call.response.fail => call.ret = PyNone
        /\ (~call.response.fail /\ call.response.status_code \notin 200..299) =>
               /\ call.ret.tag = "error"
               /\ call.ret.status_code = call.response.status_code
        /\ (~call.response.fail /\ call.response.status_code \in 200..299) =>
               call.ret.tag # "error"

\* C8: construction ends with plugin_id resolved or raises the Request
\* Timeout HTTPException, which it does whenever the marketplace lookup
\* cannot complete.
C8_ConstructOrTimeout ==
    /\ db.state = "ready" => db.plugin_id # "None"
    /\ db.state = "raised" => db.exception = "HTTPException408"

\* C10: a message helper returns the gateway's payload only when it is
\* non-empty and has no status_code key, and an empty value when the gateway
\* returned None or an error object; it never returns an error object.
C10_HelpersHideErrors ==
    (call.fn \in Helpers /\ call.ret.tag # "raise") =>
        /\ ~HasStatusCode(call.ret)
        /\ (Truthy(call.inner) /\ ~HasStatusCode(call.inner)) => call.ret = call.inner
        /\ (call.inner = PyNone \/ HasStatusCode(call.inner)) => ~Truthy(call.ret)

\* ---------------------------------------------------- the concurrency claim
InStore(user) == \E k \in 1..Len(store) : user \in Range(store[k].reactedUsersId)

\* C9: toggles of concurrent requests are not coordinated: the stored emojis
\* list is exactly the list of the update applied last, built from what that
\* request had read, whatever the other request has stored in between.
C9_LastWriteWins ==
    last # 0 =>
        /\ store = message[last].emojis
        /\ wrote = Requests =>
               \/ store = ReactionsAfter(payload[last], store0).list
               \/ store = ReactionsAfter(payload[last],
                              ReactionsAfter(payload[3 - last], store0).list).list

\* Both updates were applied and the first user's reaction is not in the
\* stored message, although the user had not reacted before.
C9_Witness ==
    /\ wrote = Requests
    /\ last = 2
    /\ store0 = <<>>
    /\ ~InStore("u1")
    /\ InStore("u2")

====
